---- MODULE Spec2Model ----
(***************************************************************************)
(* The approval workflow engine of the expense backend:                    *)
(*   app/services/approval_service.py  (ApprovalService)                   *)
(*   app/models/models.py              (Expense, Approval, ApprovalRule)   *)
(*   app/api/expenses.py, approval_rules.py, users.py  (the other writers) *)
(* One expense of one company is followed from the moment its row exists   *)
(* as Pending, through workflow construction, to the approvers' approve /  *)
(* reject calls.  The model starts at the call of the service:             *)
(* create_expense, the only caller of create_approval_workflow in the      *)
(* repository, raises before it reaches the call (expenses.py line 35      *)
(* queries the enum ExpenseCategory), and create_approval_rule raises at   *)
(* approval_rules.py line 38, so the expenses, users and approval_rules    *)
(* rows the service reads are rows the tables can hold, not rows those two *)
(* endpoints wrote.                                                        *)
(***************************************************************************)
EXTENDS Integers, Sequences, FiniteSets, TLC

(***************************************************************************)
(* Bounds of the model.                                                    *)
(***************************************************************************)
NumUsers == 5
MaxAmount == 2
MaxRules == 2
MaxListed == 5
MaxRows == 2
MaxEvalRows == 3

(***************************************************************************)
(* Values of the data model.                                               *)
(***************************************************************************)
\* A NULL column value (nullable=True columns of ApprovalRule, User.manager_id).
NULL == -1

PENDING == "pending"
APPROVED == "approved"
REJECTED == "rejected"
ExpenseStatus == {PENDING, APPROVED, REJECTED}

SPECIFIC_APPROVER == "specific_approver"
PERCENTAGE == "percentage"
HYBRID == "hybrid"
ApprovalRuleType == {PERCENTAGE, SPECIFIC_APPROVER, HYBRID}

\* Users that may be named as approvers and that may call the approval endpoint.
Users == 1..NumUsers
\* The submitting employee.
Employee == NumUsers + 1
\* The company of the expense and another company.
Company == 1
OtherCompany == 2
\* amount_in_company_currency: the request schemas admit amounts > 0 only.
Amounts == 1..MaxAmount
\* users.manager_id of the employee: no manager, or one of the users.
Managers == {NULL, NumUsers}

\* The stacks the repository runs on: no SQLAlchemy release is pinned, the
\* development settings name SQLite and the production settings PostgreSQL.
SA1_POSTGRESQL == "SQLAlchemy 1.x on PostgreSQL"
SA1_SQLITE == "SQLAlchemy 1.x on SQLite"
SA2 == "SQLAlchemy 2.x"
Builds == {SA1_POSTGRESQL, SA1_SQLITE, SA2}

\* An ApprovalRule row together with its rule_approvers relationship
\* (the approver ids of its ApprovalRuleApprover rows, in load order).
Rule(type, lo, hi, pct, specific, approvers) ==
    [rule_type |-> type, min_amount |-> lo, max_amount |-> hi,
     percentage_required |-> pct, specific_approver_id |-> specific,
     is_active |-> TRUE, company_id |-> Company, rule_approvers |-> approvers]

\* An Approval row as create_approval_workflow constructs it.
Approval(expense_id, approver_id, sequence, status) ==
    [expense_id |-> expense_id, approver_id |-> approver_id,
     sequence |-> sequence, status |-> status]

(***************************************************************************)
(* The rule stores the expense's company may have configured.              *)
(***************************************************************************)
RuleCatalog ==
    { Rule(SPECIFIC_APPROVER, 1, 2, NULL, 1, <<>>),
      Rule(PERCENTAGE, 1, 2, 50, NULL, <<1, 2, 3>>),
      Rule(PERCENTAGE, 1, 1, 60, NULL, <<1, 2, 3, 4, 5>>),
      Rule(PERCENTAGE, 1, 2, 100, NULL, <<1, 2>>),
      Rule(PERCENTAGE, 2, 2, 0, NULL, <<2, 3>>),
      Rule(HYBRID, 1, 2, 50, 1, <<1, 2, 3>>) }

RECURSIVE SeqsUpTo(_, _)
SeqsUpTo(S, n) ==
    IF n = 0 THEN {<<>>}
    ELSE LET shorter == SeqsUpTo(S, n - 1)
         IN  shorter \cup {Append(s, x) : s \in shorter, x \in S}

\* The size of a store: the approvers its rules name, in specific_approver_id
\* and in rule_approvers, counted with repetition and whether or not a
\* workflow gets a row for them.
RECURSIVE ListedApprovers(_)
ListedApprovers(rs) ==
    IF rs = <<>> THEN 0
    ELSE Len(Head(rs).rule_approvers)
         + (IF Head(rs).specific_approver_id # NULL THEN 1 ELSE 0)
         + ListedApprovers(Tail(rs))

\* The stores of at most MaxRules rules that name at most MaxListed approvers.
RuleStores == {rs \in SeqsUpTo(RuleCatalog, MaxRules) : ListedApprovers(rs) <= MaxListed}

(***************************************************************************)
(* State.                                                                  *)
(***************************************************************************)
VARIABLES
    build,          \* the SQLAlchemy release and the database the service runs on
    rules,          \* approval_rules rows of the database, in query order
    manager_id,     \* users.manager_id of the submitting employee (NULL: none)
    expense,        \* the expenses row
    approvals,      \* approvals rows; Approval.id is the position in the sequence
    built,          \* create_approval_workflow has run for the expense
    resolved_by,    \* history: per approvals row, the user whose request resolved it
    ret,            \* what the last process_approval request returned
    tx              \* the requests in progress, each in its own session

vars == <<build, rules, manager_id, expense, approvals, built, resolved_by, ret, tx>>

(***************************************************************************)
(* Rule selection: the query of create_approval_workflow and of            *)
(* _check_approval_completion.  A comparison with a NULL bound is not true *)
(* in SQL, so a rule with an unset bound is not returned.                  *)
(***************************************************************************)
\* Mutant of Applies: the bounds are exclusive.
AppliesStrictBounds(rule, e) ==
    /\ rule.company_id = e.company_id
    /\ rule.is_active
    /\ rule.min_amount # NULL
    /\ rule.min_amount < e.amount_in_company_currency
    /\ rule.max_amount # NULL
    /\ rule.max_amount > e.amount_in_company_currency

Applies(rule, e) ==
    /\ rule.company_id = e.company_id
    /\ rule.is_active
    /\ rule.min_amount # NULL
    /\ rule.min_amount <= e.amount_in_company_currency
    /\ rule.max_amount # NULL
    /\ rule.max_amount >= e.amount_in_company_currency

ApplicableRules(rs, e) == SelectSeq(rs, LAMBDA r : Applies(r, e))

(***************************************************************************)
(* create_approval_workflow                                                *)
(***************************************************************************)
\* Mutant of DefaultApprovals: the row is assigned to the employee, not the manager.
DefaultApprovalsToEmployee(e, manager) ==
    IF manager # NULL /\ manager # 0
    THEN <<Approval(e.id, e.employee_id, 1, PENDING)>>
    ELSE <<>>

\* Mutant of DefaultApprovals: without a manager the row goes to the employee.
DefaultApprovalsOrSelf(e, manager) ==
    IF manager # NULL /\ manager # 0
    THEN <<Approval(e.id, manager, 1, PENDING)>>
    ELSE <<Approval(e.id, e.employee_id, 1, PENDING)>>

\* The default workflow: one row for the employee's manager, if there is one.
DefaultApprovals(e, manager) ==
    IF manager # NULL /\ manager # 0
    THEN <<Approval(e.id, manager, 1, PENDING)>>
    ELSE <<>>

\* The rows one applicable rule contributes under sequence number `sequence`.
RuleApprovals(rule, e, sequence) ==
    IF rule.rule_type = SPECIFIC_APPROVER
    THEN <<Approval(e.id, rule.specific_approver_id, sequence, PENDING)>>
    ELSE IF rule.rule_type = PERCENTAGE
    THEN [i \in 1..Len(rule.rule_approvers) |->
             Approval(e.id, rule.rule_approvers[i], sequence, PENDING)]
    ELSE <<>>

\* The sequence number after a rule: only the two handled branches increment it.
NextSequence(rule, sequence) ==
    IF rule.rule_type \in {SPECIFIC_APPROVER, PERCENTAGE}
    THEN sequence + 1
    ELSE sequence

RECURSIVE ApplyRules(_, _, _)
ApplyRules(rs, e, sequence) ==
    IF rs = <<>> THEN <<>>
    ELSE RuleApprovals(Head(rs), e, sequence)
         \o ApplyRules(Tail(rs), e, NextSequence(Head(rs), sequence))

\* The list create_approval_workflow adds to the session and commits.
WorkflowApprovals(rs, e, manager) ==
    LET applicable == ApplicableRules(rs, e)
    IN  IF applicable = <<>>
        THEN DefaultApprovals(e, manager)
        ELSE ApplyRules(applicable, e, 1)

(***************************************************************************)
(* _check_approval_completion                                              *)
(***************************************************************************)
Range(s) == {s[i] : i \in 1..Len(s)}

\* Mutant of SpecificApproved: any Approved row counts, whoever its approver is.
SpecificApprovedAnyRow(approver, rows) ==
    \E i \in 1..Len(rows) : rows[i].status = APPROVED

\* next((a for a in approvals if a.approver_id == id), None) is Approved:
\* the first row of that approver decides.
SpecificApproved(approver, rows) ==
    \E i \in 1..Len(rows) :
        /\ rows[i].approver_id = approver
        /\ \A j \in 1..(i - 1) : rows[j].approver_id # approver
        /\ rows[i].status = APPROVED

\* Mutant of RuleApprovalsOf: the rows are not filtered by the rule's approvers.
RuleApprovalsOfAnyApprover(rule, rows) == rows

\* The rows whose approver is listed in rule.rule_approvers.
RuleApprovalsOf(rule, rows) ==
    SelectSeq(rows, LAMBDA a : a.approver_id \in Range(rule.rule_approvers))

ApprovedCount(rows) == Cardinality({i \in 1..Len(rows) : rows[i].status = APPROVED})

\* The counts (approved_count, len(rule_approvals), percentage_required) up
\* to 100 rows and integer percentages at which the exact quotient equals
\* the threshold and the binary floating point product
\* (approved_count / len(rule_approvals)) * 100 falls below it, 29 / 50 * 100
\* being 57.99999999999999.  Nowhere else in that range do the two part.
FloatBelowThreshold == {<<29, 50, 58>>, <<29, 100, 29>>, <<57, 100, 57>>, <<58, 100, 58>>}

\* (approved_count / len(rule_approvals)) * 100 >= percentage_required, as
\* the code computes it in binary floating point, for a non-empty
\* rule_approvals of up to 100 rows and an integer percentage_required.
PercentageReached(rows, pct) ==
    /\ ApprovedCount(rows) * 100 >= pct * Len(rows)
    /\ <<ApprovedCount(rows), Len(rows), pct>> \notin FloatBelowThreshold

\* One iteration of the loop over the rules: "True" when it returns True,
\* "False" when it falls through to the next rule, "TypeError" when the
\* comparison with an unset percentage_required raises.
RuleOutcome(rule, rows) ==
    IF rule.rule_type = SPECIFIC_APPROVER
    THEN IF SpecificApproved(rule.specific_approver_id, rows) THEN "True" ELSE "False"
    ELSE IF rule.rule_type = PERCENTAGE
    THEN LET rule_approvals == RuleApprovalsOf(rule, rows)
         IN  IF rule_approvals = <<>> THEN "False"
             ELSE IF rule.percentage_required = NULL THEN "TypeError"
             ELSE IF PercentageReached(rule_approvals, rule.percentage_required)
             THEN "True" ELSE "False"
    ELSE LET specific_approved ==
                 /\ rule.specific_approver_id # NULL
                 /\ rule.specific_approver_id # 0
                 /\ SpecificApproved(rule.specific_approver_id, rows)
             rule_approvals == RuleApprovalsOf(rule, rows)
             percentage_approved ==
                 /\ rule.percentage_required # NULL
                 /\ rule.percentage_required # 0
                 /\ rule_approvals # <<>>
                 /\ PercentageReached(rule_approvals, rule.percentage_required)
         IN  IF specific_approved \/ percentage_approved THEN "True" ELSE "False"

RECURSIVE EvalRules(_, _)
EvalRules(rs, rows) ==
    IF rs = <<>> THEN "False"
    ELSE LET outcome == RuleOutcome(Head(rs), rows)
         IN  IF outcome = "False" THEN EvalRules(Tail(rs), rows) ELSE outcome

\* Mutant of AllApproved: a Pending row does not count against completion.
AllApprovedOrPending(rows) == \A i \in 1..Len(rows) : rows[i].status # REJECTED

AllApproved(rows) == \A i \in 1..Len(rows) : rows[i].status = APPROVED

CheckApprovalCompletion(rs, e, rows) ==
    LET applicable == ApplicableRules(rs, e)
    IN  IF applicable = <<>>
        THEN IF AllApproved(rows) THEN "True" ELSE "False"
        ELSE EvalRules(applicable, rows)

(***************************************************************************)
(* process_approval                                                        *)
(***************************************************************************)
Actions == {"approve", "reject"}

\* Mutant of FindApproval: the status filter is missing.
FindApprovalAnyStatus(rows, approval_id, approver_id) ==
    /\ approval_id \in 1..Len(rows)
    /\ rows[approval_id].approver_id = approver_id

\* The first query: the row with this id, this approver and status Pending.
FindApproval(rows, approval_id, approver_id) ==
    /\ approval_id \in 1..Len(rows)
    /\ rows[approval_id].approver_id = approver_id
    /\ rows[approval_id].status = PENDING

\* approval.status = APPROVED if action == "approve" else REJECTED
Resolve(rows, approval_id, action) ==
    [rows EXCEPT ![approval_id].status =
        IF action = "approve" THEN APPROVED ELSE REJECTED]

\* all_approvals: the rows of the expense, the acted row as the session holds it.
AllApprovals(rows, e) == SelectSeq(rows, LAMBDA a : a.expense_id = e.id)

\* Mutant of ExpenseStatusAfter: an approve that does not complete resets the status.
ExpenseStatusAfterResetsPending(rs, e, rows, action) ==
    IF action = "reject" THEN REJECTED
    ELSE IF CheckApprovalCompletion(rs, e, AllApprovals(rows, e)) = "True"
    THEN APPROVED
    ELSE PENDING

\* The status process_approval leaves the expense with, the acted row resolved.
ExpenseStatusAfter(rs, e, rows, action) ==
    IF action = "reject" THEN REJECTED
    ELSE IF CheckApprovalCompletion(rs, e, AllApprovals(rows, e)) = "True"
    THEN APPROVED
    ELSE e.status

\* Line 93, approval.approved_at = db.execute("SELECT CURRENT_TIMESTAMP").scalar():
\* SQLAlchemy 2.x refuses a plain string statement and raises ArgumentError.
ExecuteRaises(b) == b = SA2

\* Line 93 and line 111: on SQLite the statement returns a str, which the
\* DateTime column approved_at refuses when db.commit() flushes the row
\* (StatementError).
CommitRaises(b) == b = SA1_SQLITE

\* What a request returns that no other request runs beside: "True"
\* (committed), "False" (the 404 of the endpoint, nothing written) or "raise"
\* (the 500 of the endpoint: line 93, the completion check or the flush
\* raised, the session is rolled back and nothing is written).  A row whose
\* expense is gone makes the request return False at line 98, before any
\* commit.
ProcessApprovalResult(rs, e, rows, approval_id, approver_id, action) ==
    IF ~FindApproval(rows, approval_id, approver_id) THEN "False"
    ELSE IF ExecuteRaises(build) THEN "raise"
    ELSE IF rows[approval_id].expense_id # e.id THEN "False"
    ELSE IF /\ action # "reject"
            /\ CheckApprovalCompletion(rs, e,
                   AllApprovals(Resolve(rows, approval_id, action), e)) = "TypeError"
    THEN "raise"
    ELSE IF CommitRaises(build) THEN "raise"
    ELSE "True"

(***************************************************************************)
(* Requests in progress.  get_db gives every request a session of its own  *)
(* (autocommit and autoflush off) and the gunicorn workers are separate    *)
(* processes, so the queries and the commit of two requests interleave.    *)
(* No query locks a row and no isolation level is set: each query reads    *)
(* what is committed at that moment, the session keeps the rows it has     *)
(* loaded and its own changes of them, and the commit writes the columns   *)
(* the session changed.  A request is taken apart at its round trips to    *)
(* the database.                                                           *)
(***************************************************************************)
\* The slots of the requests in progress: at most two at a time.
Requests == {1, 2}

\* What a session holds before it has loaded the expense and before it has
\* set expense.status.
UNSET == "unset"
NotLoaded ==
    [id |-> NULL, status |-> UNSET, amount_in_company_currency |-> NULL,
     company_id |-> NULL, employee_id |-> NULL]

Remove(s, i) == SubSeq(s, 1, i - 1) \o SubSeq(s, i + 1, Len(s))

\* The currency of the company and another currency.
COMPANY_CURRENCY == "company currency"
FOREIGN_CURRENCY == "another currency"
Currencies == {COMPANY_CURRENCY, FOREIGN_CURRENCY}

\* The body of a PUT /approval-rules/{rule_id}: ApprovalRuleCreate without
\* its name.
RuleBody(type, lo, hi, pct, specific, active, approver_ids) ==
    [rule_type |-> type, min_amount |-> lo, max_amount |-> hi,
     percentage_required |-> pct, specific_approver_id |-> specific,
     is_active |-> active, approver_ids |-> approver_ids]

\* What a request without such a body holds in its place.
NoBody == RuleBody(UNSET, NULL, NULL, NULL, NULL, FALSE, <<>>)

\* A request that has not started and holds nothing: its path parameter, user
\* and payload, and what its session will hold.
NoRequest ==
    [approval_id |-> NULL, approver_id |-> NULL, action |-> UNSET,
     amount |-> NULL, currency |-> UNSET, converted |-> NULL,
     rule_id |-> NULL, body |-> NoBody,
     manager_id |-> NULL, given |-> TRUE, pc |-> "start",
     rules |-> <<>>, expense |-> NotLoaded, rows |-> <<>>, status |-> UNSET, ret |-> "none"]

\* A process_approval request that has not started: its path parameter, user
\* and payload, and what its session will hold: the expense and the rows as
\* loaded, the rules its completion check selected and the status the session
\* gives the expense.
Request(approval_id, approver_id, action) ==
    [NoRequest EXCEPT !.approval_id = approval_id, !.approver_id = approver_id,
                      !.action = action]

\* An update_expense request of the submitter that has not started: its
\* body sets the amount and the currency.
UpdateRequest(amount, currency) ==
    [NoRequest EXCEPT !.approver_id = Employee, !.action = "update",
                      !.amount = amount, !.currency = currency]

\* A delete_expense request of the submitter that has not started.
DeleteRequest ==
    [NoRequest EXCEPT !.approver_id = Employee, !.action = "delete"]

\* An update_approval_rule request of an admin of the company that has not
\* started: its path parameter and its body.
RuleUpdateRequest(rule_id, body) ==
    [NoRequest EXCEPT !.action = "update_approval_rule", !.rule_id = rule_id,
                      !.body = body]

\* A deactivate_approval_rule request of an admin of the company that has
\* not started.
RuleDeactivateRequest(rule_id) ==
    [NoRequest EXCEPT !.action = "deactivate_approval_rule", !.rule_id = rule_id]

\* A create_approval_workflow call that has run its rule query: the rules
\* it selected, and later the manager_id it read and the rows it has added
\* to its session.
WorkflowRequest(selected) ==
    [NoRequest EXCEPT !.action = "workflow", !.given = FALSE, !.pc = "rules",
                      !.rules = selected]

\* Request t returns result.  A request given in the initial state stays in
\* tx with its result; a request that arrived later leaves tx and its result
\* is in ret.
Returned(t, result) ==
    IF tx[t].given
    THEN /\ tx' = [tx EXCEPT ![t] = [@ EXCEPT !.pc = "done", !.ret = result]]
         /\ ret' = ret
    ELSE /\ tx' = Remove(tx, t)
         /\ ret' = result

\* Lines 79-88: the query for the Pending row of this approver.
TxFindApproval(t) ==
    /\ tx[t].action \in Actions
    /\ tx[t].pc = "start"
    /\ IF FindApproval(approvals, tx[t].approval_id, tx[t].approver_id)
       THEN /\ tx' = [tx EXCEPT ![t] = [@ EXCEPT !.pc = "found"]]
            /\ ret' = ret
       ELSE Returned(t, "False")
    /\ UNCHANGED <<build, rules, manager_id, expense, approvals, built, resolved_by>>

\* Lines 91-98: the row is changed in the session, line 93 is executed, the
\* expense is loaded; the session keeps the expense as it is loaded here.
TxLoadExpense(t) ==
    /\ tx[t].action \in Actions
    /\ tx[t].pc = "found"
    /\ IF ExecuteRaises(build)
       THEN Returned(t, "raise")
       ELSE IF approvals[tx[t].approval_id].expense_id # expense.id
       THEN Returned(t, "False")
       ELSE /\ tx' = [tx EXCEPT ![t] = [@ EXCEPT !.pc = "expense", !.expense = expense]]
            /\ ret' = ret
    /\ UNCHANGED <<build, rules, manager_id, expense, approvals, built, resolved_by>>

\* Line 101: the rows of the expense as committed, the acted row as the
\* session holds it.
TxLoadApprovals(t) ==
    /\ tx[t].action \in Actions
    /\ tx[t].pc = "expense"
    /\ tx' = [tx EXCEPT ![t] =
                 [@ EXCEPT !.pc = "rows",
                           !.rows = AllApprovals(Resolve(approvals, tx[t].approval_id,
                                                         tx[t].action), tx[t].expense)]]
    /\ UNCHANGED <<build, rules, manager_id, expense, approvals, built, resolved_by, ret>>

\* Lines 106-109 of an approve: _check_approval_completion queries the rules
\* as they are committed now, for the amount the session loaded, and decides
\* on the rows the session read; the session sets expense.status when the
\* check returns True.  A TypeError of the check ends the request.  The
\* request keeps the rules the query returned.
TxCheckCompletion(t) ==
    LET r == tx[t]
    IN  /\ r.action = "approve"
        /\ r.pc = "rows"
        /\ IF CheckApprovalCompletion(rules, r.expense, r.rows) = "TypeError"
           THEN Returned(t, "raise")
           ELSE /\ tx' = [tx EXCEPT ![t] =
                             [@ EXCEPT !.pc = "checked",
                                       !.rules = ApplicableRules(rules, r.expense),
                                       !.status = ExpenseStatusAfter(rules, r.expense,
                                                                     r.rows, r.action)]]
                /\ ret' = ret
        /\ UNCHANGED <<build, rules, manager_id, expense, approvals, built, resolved_by>>

\* Lines 104-105 of a reject, and line 111: db.commit() sends UPDATE approvals
\* SET status of the acted row, and UPDATE expenses SET status when the
\* session changed the status it had loaded.
TxCommit(t) ==
    LET r == tx[t]
        status == IF r.action = "reject"
                  THEN ExpenseStatusAfter(rules, r.expense, r.rows, r.action)
                  ELSE r.status
    IN  /\ \/ r.action = "reject" /\ r.pc = "rows"
           \/ r.action = "approve" /\ r.pc = "checked"
        /\ IF CommitRaises(build)
           THEN /\ Returned(t, "raise")
                /\ UNCHANGED <<approvals, resolved_by, expense>>
           ELSE /\ Returned(t, "True")
                /\ approvals' = Resolve(approvals, r.approval_id, r.action)
                /\ resolved_by' = [resolved_by EXCEPT ![r.approval_id] = r.approver_id]
                /\ expense' = IF status # r.expense.status
                              THEN [expense EXCEPT !.status = status]
                              ELSE expense
        /\ UNCHANGED <<build, rules, manager_id, built>>

\* One round trip of a process_approval request that has found its row.
ProcessApprovalStep(t) ==
    \/ TxLoadExpense(t)
    \/ TxLoadApprovals(t)
    \/ TxCheckCompletion(t)
    \/ TxCommit(t)

\* One round trip of a process_approval request given in the initial state.
TxStep(t) ==
    \/ TxFindApproval(t)
    \/ ProcessApprovalStep(t)

(***************************************************************************)
(* The state machine: one expense from the moment its row exists as        *)
(* Pending, with the requests that arrive for it.                          *)
(***************************************************************************)
\* The expense has been added and flushed as Pending; nothing else exists
\* yet.  The rule stores are those that give the expense a workflow of at
\* most MaxRows rows.
Init ==
    /\ build \in Builds
    /\ rules \in RuleStores
    /\ manager_id \in Managers
    /\ \E amount \in Amounts :
           expense = [id |-> 1, status |-> PENDING,
                      amount_in_company_currency |-> amount,
                      company_id |-> Company, employee_id |-> Employee]
    /\ Len(WorkflowApprovals(rules, expense, manager_id)) <= MaxRows
    /\ approvals = <<>>
    /\ built = FALSE
    /\ resolved_by = <<>>
    /\ ret = "none"
    /\ tx = <<>>

\* ApprovalService.create_approval_workflow(db, expense), lines 21-28, once
\* per expense, as create_expense calls it: the rule query.
CreateApprovalWorkflowQuery ==
    /\ ~built
    /\ tx = <<>>
    /\ tx' = <<WorkflowRequest(ApplicableRules(rules, expense))>>
    /\ UNCHANGED <<build, rules, manager_id, expense, approvals, built, resolved_by, ret>>

\* Lines 30-68: without a selected rule the employee query, which reads
\* manager_id as it is committed now; with rules the loop, which loads the
\* rule_approvers of the selected Percentage rules.  The rows are added to
\* the session.
CreateApprovalWorkflowRows ==
    \E t \in DOMAIN tx :
        LET r == tx[t]
        IN  /\ r.action = "workflow"
            /\ r.pc = "rules"
            /\ tx' = [tx EXCEPT ![t] =
                         [@ EXCEPT !.pc = "rows",
                                   !.manager_id = IF r.rules = <<>> THEN manager_id ELSE NULL,
                                   !.rows = IF r.rules = <<>>
                                            THEN DefaultApprovals(expense, manager_id)
                                            ELSE ApplyRules(r.rules, expense, 1)]]
            /\ UNCHANGED <<build, rules, manager_id, expense, approvals, built,
                           resolved_by, ret>>

\* Line 70, db.commit(): the rows of the session are inserted.
\* approvals.approver_id is NOT NULL: a row without approver makes the commit
\* raise IntegrityError, and neither the rows nor the flushed expense persist.
CreateApprovalWorkflowCommit ==
    \E t \in DOMAIN tx :
        LET rows == tx[t].rows
        IN  /\ tx[t].action = "workflow"
            /\ tx[t].pc = "rows"
            /\ tx' = Remove(tx, t)
            /\ built' = TRUE
            /\ IF \E i \in 1..Len(rows) : rows[i].approver_id = NULL
               THEN /\ ret' = "IntegrityError"
                    /\ expense' = [expense EXCEPT !.id = NULL]
                    /\ UNCHANGED <<approvals, resolved_by>>
               ELSE /\ approvals' = approvals \o rows
                    /\ resolved_by' = [i \in 1..Len(approvals') |-> NULL]
                    /\ UNCHANGED <<expense, ret>>
            /\ UNCHANGED <<build, rules, manager_id>>

\* PUT /users/{user_id} by an admin of the company, the body setting the
\* employee's manager_id to a manager of the company or to null.
UpdateUser(manager) ==
    /\ manager_id' = manager
    /\ UNCHANGED <<build, rules, expense, approvals, built, resolved_by, ret, tx>>

\* POST /{approval_id}/approve by user approver_id with the given action
\* arrives and runs the query of lines 79-88: without a Pending row of this
\* approver it returns False and nothing is written; with one the request
\* goes on in a session of its own, while a slot is free.
ProcessApproval(approval_id, approver_id, action) ==
    /\ IF FindApproval(approvals, approval_id, approver_id)
       THEN /\ Len(tx) < Cardinality(Requests)
            /\ tx' = Append(tx, [Request(approval_id, approver_id, action)
                                    EXCEPT !.given = FALSE, !.pc = "found"])
            /\ ret' = ret
       ELSE /\ tx' = tx
            /\ ret' = "False"
    /\ UNCHANGED <<build, rules, manager_id, expense, approvals, built, resolved_by>>

Next ==
    \/ CreateApprovalWorkflowQuery
    \/ CreateApprovalWorkflowRows
    \/ CreateApprovalWorkflowCommit
    \/ \E approval_id \in 1..(Len(approvals) + 1), approver_id \in Users, action \in Actions :
           ProcessApproval(approval_id, approver_id, action)
    \/ \E t \in DOMAIN tx : ProcessApprovalStep(t)
    \/ \E manager \in Managers : UpdateUser(manager)

Spec == Init /\ [][Next]_vars

(***************************************************************************)
(* Completion evaluation as a function: its inputs drawn from bounded      *)
(* sets.  Rows are never deleted and rules change after construction, so   *)
(* the rows of an expense need not be the rows its current rules would     *)
(* build.                                                                  *)
(***************************************************************************)
EvalCatalog ==
    { Rule(SPECIFIC_APPROVER, 1, 1, NULL, 1, <<>>),
      Rule(PERCENTAGE, 1, 1, 50, NULL, <<1, 2>>),
      Rule(HYBRID, 1, 1, 50, 1, <<1, 2>>),
      Rule(HYBRID, 1, 1, 0, 1, <<1, 2>>),
      Rule(PERCENTAGE, 1, 1, NULL, NULL, <<1, 2>>),
      Rule(PERCENTAGE, 1, 1, 0, NULL, <<2>>),
      Rule(HYBRID, 1, 1, 50, 1, <<2>>),
      [Rule(SPECIFIC_APPROVER, 1, 1, NULL, 1, <<>>) EXCEPT !.is_active = FALSE] }

EvalStores == SeqsUpTo(EvalCatalog, MaxRules)

EvalApprovers == {1, 2}

EvalRows == SeqsUpTo({Approval(1, u, 1, st) : u \in EvalApprovers, st \in ExpenseStatus},
                     MaxEvalRows)

\* The function executes no statement of line 93: one stack stands for all.
InitEval ==
    /\ build = SA1_POSTGRESQL
    /\ rules \in EvalStores
    /\ manager_id = NULL
    /\ expense = [id |-> 1, status |-> PENDING, amount_in_company_currency |-> 1,
                  company_id |-> Company, employee_id |-> Employee]
    /\ approvals \in EvalRows
    /\ built = TRUE
    /\ resolved_by = [i \in 1..Len(approvals) |->
                         IF approvals[i].status = PENDING THEN NULL
                         ELSE approvals[i].approver_id]
    /\ ret = "none"
    /\ tx = <<>>

\* ApprovalService._check_approval_completion(db, expense, all_approvals)
Evaluate ==
    /\ ret = "none"
    /\ ret' = CheckApprovalCompletion(rules, expense, AllApprovals(approvals, expense))
    /\ UNCHANGED <<build, rules, manager_id, expense, approvals, built, resolved_by, tx>>

NextEval == Evaluate

SpecEval == InitEval /\ [][NextEval]_vars

(***************************************************************************)
(* Two requests in flight together on a workflow that is built and         *)
(* untouched.  The requests are given in the initial state and each stays  *)
(* in tx with its result.                                                  *)
(***************************************************************************)
\* Each request is by the designated approver of the row it names.
InitConc ==
    /\ build \in Builds
    /\ rules \in RuleStores
    /\ manager_id \in Managers
    /\ \E amount \in Amounts :
           expense = [id |-> 1, status |-> PENDING,
                      amount_in_company_currency |-> amount,
                      company_id |-> Company, employee_id |-> Employee]
    /\ approvals = WorkflowApprovals(rules, expense, manager_id)
    /\ built = TRUE
    /\ resolved_by = [i \in 1..Len(approvals) |-> NULL]
    /\ ret = "none"
    /\ \E i, j \in 1..Len(approvals), a, b \in Actions :
           tx = <<Request(i, approvals[i].approver_id, a),
                  Request(j, approvals[j].approver_id, b)>>

NextConc == \E t \in Requests : TxStep(t)

SpecConc == InitConc /\ [][NextConc]_vars

(***************************************************************************)
(* Rule selection over stores whose rules differ in company, is_active and *)
(* amount window, set or unset.  Every rule is a SpecificApprover rule     *)
(* whose approver is its position in the store, so the rows of a workflow  *)
(* tell which rules were selected.                                         *)
(***************************************************************************)
\* min_amount and max_amount of the rules: unset, or an amount.
SelectBounds == {NULL, 1, 2}

\* The rules of the company with every window, one inactive rule and one rule
\* of another company.
GateCatalog ==
    { Rule(SPECIFIC_APPROVER, lo, hi, NULL, NULL, <<>>) : lo, hi \in SelectBounds }
    \cup { [Rule(SPECIFIC_APPROVER, 1, 2, NULL, NULL, <<>>) EXCEPT !.is_active = FALSE],
           [Rule(SPECIFIC_APPROVER, 1, 2, NULL, NULL, <<>>) EXCEPT !.company_id = OtherCompany] }

SelectStores ==
    { [i \in 1..Len(gs) |-> [gs[i] EXCEPT !.specific_approver_id = i]] :
          gs \in SeqsUpTo(GateCatalog, MaxRules) }

InitSelect ==
    /\ build \in Builds
    /\ rules \in SelectStores
    /\ manager_id = NULL
    /\ \E amount \in Amounts :
           expense = [id |-> 1, status |-> PENDING,
                      amount_in_company_currency |-> amount,
                      company_id |-> Company, employee_id |-> Employee]
    /\ approvals = <<>>
    /\ built = FALSE
    /\ resolved_by = <<>>
    /\ ret = "none"
    /\ tx = <<>>

SpecSelect == InitSelect /\ [][Next]_vars

(***************************************************************************)
(* Rules changing under a workflow: an admin of the company updates or     *)
(* deactivates a rule while two approvers act.                             *)
(***************************************************************************)
ChangeCatalog ==
    { [Rule(SPECIFIC_APPROVER, 1, 2, NULL, 1, <<>>) EXCEPT !.is_active = active] :
          active \in BOOLEAN }
    \cup { [Rule(PERCENTAGE, 1, 2, 100, NULL, <<1, 2>>) EXCEPT !.is_active = active] :
               active \in BOOLEAN }

\* The stores that name at most three approvers.
ChangeStores == {rs \in SeqsUpTo(ChangeCatalog, MaxRules) : ListedApprovers(rs) <= 3}

\* The bodies of the rule updates: a SpecificApprover rule naming a manager,
\* one naming the submitting employee, a Percentage rule with a list of
\* approver_ids, an inactive rule, and a rule whose window the amount of the
\* expense is outside of.
RuleBodies ==
    { RuleBody(SPECIFIC_APPROVER, 1, 2, NULL, 3, TRUE, <<>>),
      RuleBody(SPECIFIC_APPROVER, 1, 2, NULL, Employee, TRUE, <<>>),
      RuleBody(PERCENTAGE, 1, 2, 50, NULL, TRUE, <<3>>),
      RuleBody(PERCENTAGE, 1, 2, 100, NULL, FALSE, <<>>),
      RuleBody(PERCENTAGE, 2, 2, 100, NULL, TRUE, <<>>) }

\* The rule requests an admin can send when the store is rs: an update or a
\* deactivation of a rule of the store, or of a rule that does not exist.
RuleRequests(rs) ==
    {RuleDeactivateRequest(rule_id) : rule_id \in 1..(Len(rs) + 1)}
    \cup {RuleUpdateRequest(rule_id, body) :
              rule_id \in 1..(Len(rs) + 1), body \in RuleBodies}

\* The workflow is built and untouched; two approve or reject requests
\* arrive, each by the designated approver of the row it names, and one rule
\* request of an admin.
InitRules ==
    /\ build \in Builds
    /\ rules \in ChangeStores
    /\ manager_id \in Managers
    /\ expense = [id |-> 1, status |-> PENDING, amount_in_company_currency |-> 1,
                  company_id |-> Company, employee_id |-> Employee]
    /\ approvals = WorkflowApprovals(rules, expense, manager_id)
    /\ built = TRUE
    /\ resolved_by = [i \in 1..Len(approvals) |-> NULL]
    /\ ret = "none"
    /\ \E i, j \in 1..Len(approvals), a, b \in Actions, admin \in RuleRequests(rules) :
           tx = <<Request(i, approvals[i].approver_id, a),
                  Request(j, approvals[j].approver_id, b),
                  admin>>

\* The rule query of update_approval_rule, lines 131-140, and of
\* deactivate_approval_rule, lines 176-185: the rule of the admin's company
\* with this id; 404 without one.  The session keeps the rule as loaded.
RuleLoad(t, action) ==
    LET r == tx[t]
    IN  /\ r.action = action
        /\ r.pc = "start"
        /\ tx' = [tx EXCEPT ![t] =
                     IF \/ r.rule_id \notin 1..Len(rules)
                        \/ rules[r.rule_id].company_id # Company
                     THEN [@ EXCEPT !.pc = "done", !.ret = "HTTP 404"]
                     ELSE [@ EXCEPT !.pc = "rule", !.rules = <<rules[r.rule_id]>>]]
        /\ UNCHANGED <<build, rules, manager_id, expense, approvals, built,
                       resolved_by, ret>>

\* Lines 143-153: a body that names a specific approver has it looked up
\* among the admins and managers of the company; 400 without such a user.
UpdateApprovalRuleValidate(t) ==
    LET r == tx[t]
    IN  /\ r.action = "update_approval_rule"
        /\ r.pc = "rule"
        /\ r.body.specific_approver_id \notin {NULL, 0}
        /\ tx' = [tx EXCEPT ![t] =
                     IF r.body.specific_approver_id \in Users
                     THEN [@ EXCEPT !.pc = "validated"]
                     ELSE [@ EXCEPT !.pc = "done", !.ret = "HTTP 400"]]
        /\ UNCHANGED <<build, rules, manager_id, expense, approvals, built,
                       resolved_by, ret>>

\* The value the commit leaves in a column: the session sends the columns
\* whose value it changed, so the body's value when it differs from the
\* loaded one, and what is committed otherwise.
Written(body, loaded, committed) ==
    IF body # loaded THEN body ELSE committed

\* Lines 156-161: every field of the body is set on the loaded rule and the
\* commit sends UPDATE approval_rules SET the columns that changed.
\* approver_ids is no column and no relationship of ApprovalRule: setting it
\* sets a plain attribute of the instance, and the approval_rule_approvers
\* rows stay as they are.
UpdateApprovalRuleCommit(t) ==
    LET r == tx[t]
        body == r.body
        loaded == r.rules[1]
        rule == rules[r.rule_id]
    IN  /\ r.action = "update_approval_rule"
        /\ \/ r.pc = "rule" /\ body.specific_approver_id \in {NULL, 0}
           \/ r.pc = "validated"
        /\ tx' = [tx EXCEPT ![t] = [@ EXCEPT !.pc = "done", !.ret = "updated"]]
        /\ rules' = [rules EXCEPT ![r.rule_id] =
               [rule EXCEPT
                   !.rule_type = Written(body.rule_type, loaded.rule_type, @),
                   !.min_amount = Written(body.min_amount, loaded.min_amount, @),
                   !.max_amount = Written(body.max_amount, loaded.max_amount, @),
                   !.percentage_required = Written(body.percentage_required,
                                                   loaded.percentage_required, @),
                   !.specific_approver_id = Written(body.specific_approver_id,
                                                    loaded.specific_approver_id, @),
                   !.is_active = Written(body.is_active, loaded.is_active, @)]]
        /\ UNCHANGED <<build, manager_id, expense, approvals, built, resolved_by, ret>>

\* PUT /approval-rules/{rule_id} by an admin of the company, one round trip
\* at a time.
UpdateApprovalRule(t) ==
    \/ RuleLoad(t, "update_approval_rule")
    \/ UpdateApprovalRuleValidate(t)
    \/ UpdateApprovalRuleCommit(t)

\* Lines 187-188: is_active is set to False on the loaded rule and committed.
DeactivateApprovalRuleCommit(t) ==
    LET r == tx[t]
    IN  /\ r.action = "deactivate_approval_rule"
        /\ r.pc = "rule"
        /\ tx' = [tx EXCEPT ![t] = [@ EXCEPT !.pc = "done", !.ret = "deactivated"]]
        /\ rules' = [rules EXCEPT ![r.rule_id].is_active =
                        Written(FALSE, r.rules[1].is_active, @)]
        /\ UNCHANGED <<build, manager_id, expense, approvals, built, resolved_by, ret>>

\* DELETE /approval-rules/{rule_id} by an admin of the company, one round
\* trip at a time.
DeactivateApprovalRule(t) ==
    \/ RuleLoad(t, "deactivate_approval_rule")
    \/ DeactivateApprovalRuleCommit(t)

NextRules ==
    \E t \in DOMAIN tx :
        \/ TxStep(t)
        \/ UpdateApprovalRule(t)
        \/ DeactivateApprovalRule(t)

SpecRules == InitRules /\ [][NextRules]_vars

(***************************************************************************)
(* The submitter updates the amount of the expense while an approver acts. *)
(* The rules have disjoint windows, so an update can move the expense from *)
(* one rule to the other.                                                  *)
(***************************************************************************)
UpdateCatalog ==
    { Rule(SPECIFIC_APPROVER, 1, 1, NULL, 1, <<>>),
      Rule(PERCENTAGE, 2, 2, 100, NULL, <<1, 2>>) }

\* The stores that name at most three approvers.
UpdateStores == {rs \in SeqsUpTo(UpdateCatalog, MaxRules) : ListedApprovers(rs) <= 3}

\* The workflow is built and untouched; an approve or reject request by the
\* designated approver of a row and an update request of the submitter arrive.
InitUpdate ==
    /\ build \in Builds
    /\ rules \in UpdateStores
    /\ manager_id \in Managers
    /\ \E amount \in Amounts :
           expense = [id |-> 1, status |-> PENDING,
                      amount_in_company_currency |-> amount,
                      company_id |-> Company, employee_id |-> Employee]
    /\ approvals = WorkflowApprovals(rules, expense, manager_id)
    /\ built = TRUE
    /\ resolved_by = [i \in 1..Len(approvals) |-> NULL]
    /\ ret = "none"
    /\ \E i \in 1..Len(approvals), a \in Actions, amount \in Amounts,
          currency \in Currencies :
           tx = <<Request(i, approvals[i].approver_id, a),
                  UpdateRequest(amount, currency)>>

\* PUT /expenses/{expense_id}, lines 279-296: the submitter's expense is
\* loaded; 404 when it is gone, 400 unless it is Pending.
UpdateExpenseLoad(t) ==
    /\ tx[t].action = "update"
    /\ tx[t].pc = "start"
    /\ tx' = [tx EXCEPT ![t] =
                 IF expense.id = NULL
                 THEN [@ EXCEPT !.pc = "done", !.ret = "HTTP 404"]
                 ELSE IF expense.status # PENDING
                 THEN [@ EXCEPT !.pc = "done", !.ret = "HTTP 400"]
                 ELSE [@ EXCEPT !.pc = "expense", !.expense = expense]]
    /\ UNCHANGED <<build, rules, manager_id, expense, approvals, built, resolved_by, ret>>

\* Lines 298-313 of a body in another currency than the company's: the
\* request awaits currency_service.convert_currency, which asks the exchange
\* rate service of the Internet for a rate; without a rate it returns None
\* and the request ends with HTTP 400, nothing committed; with one the
\* amount times the rate is the amount in company currency.
UpdateExpenseConvert(t) ==
    LET r == tx[t]
    IN  /\ r.action = "update"
        /\ r.pc = "expense"
        /\ r.currency # COMPANY_CURRENCY
        /\ \E converted_amount \in Amounts \cup {NULL} :
               tx' = [tx EXCEPT ![t] =
                         IF converted_amount = NULL
                         THEN [@ EXCEPT !.pc = "done", !.ret = "HTTP 400"]
                         ELSE [@ EXCEPT !.pc = "converted",
                                        !.converted = converted_amount]]
        /\ UNCHANGED <<build, rules, manager_id, expense, approvals, built,
                       resolved_by, ret>>

\* Lines 314-321: the amount in company currency is the converted amount,
\* or the amount of the body when the body is in the company's currency;
\* the fields are set on the loaded expense and the commit sends UPDATE
\* expenses SET the columns that changed; the workflow is not touched.
UpdateExpenseCommit(t) ==
    LET r == tx[t]
        amount_in_company_currency ==
            IF r.currency = COMPANY_CURRENCY THEN r.amount ELSE r.converted
    IN  /\ r.action = "update"
        /\ \/ r.pc = "expense" /\ r.currency = COMPANY_CURRENCY
           \/ r.pc = "converted"
        /\ tx' = [tx EXCEPT ![t] = [@ EXCEPT !.pc = "done", !.ret = "updated"]]
        /\ expense' = [expense EXCEPT !.amount_in_company_currency =
                          IF amount_in_company_currency
                                 # r.expense.amount_in_company_currency
                          THEN amount_in_company_currency
                          ELSE @]
        /\ UNCHANGED <<build, rules, manager_id, approvals, built, resolved_by, ret>>

\* PUT /expenses/{expense_id} by the submitter, one round trip or await at
\* a time.
UpdateExpense(t) ==
    \/ UpdateExpenseLoad(t)
    \/ UpdateExpenseConvert(t)
    \/ UpdateExpenseCommit(t)

NextUpdate ==
    \E t \in DOMAIN tx :
        \/ TxStep(t)
        \/ UpdateExpense(t)

SpecUpdate == InitUpdate /\ [][NextUpdate]_vars

(***************************************************************************)
(* The submitter deletes the expense, twice at a time, while an approver   *)
(* acts.  A deleted expense is the expenses row with id NULL: no row       *)
(* refers to it and no query finds it.                                     *)
(***************************************************************************)
DeleteCatalog == { Rule(SPECIFIC_APPROVER, 1, 2, NULL, 1, <<>>) }

DeleteStores == SeqsUpTo(DeleteCatalog, MaxRules)

\* The workflow is built and untouched; two delete requests of the submitter
\* arrive and, when the workflow has rows, an approve or reject request by
\* the designated approver of a row.
InitDelete ==
    /\ build \in Builds
    /\ rules \in DeleteStores
    /\ manager_id \in Managers
    /\ \E amount \in Amounts :
           expense = [id |-> 1, status |-> PENDING,
                      amount_in_company_currency |-> amount,
                      company_id |-> Company, employee_id |-> Employee]
    /\ approvals = WorkflowApprovals(rules, expense, manager_id)
    /\ built = TRUE
    /\ resolved_by = [i \in 1..Len(approvals) |-> NULL]
    /\ ret = "none"
    /\ IF approvals = <<>>
       THEN tx = <<DeleteRequest, DeleteRequest>>
       ELSE \E i \in 1..Len(approvals), a \in Actions :
                tx = <<DeleteRequest, DeleteRequest,
                       Request(i, approvals[i].approver_id, a)>>

\* DELETE /expenses/{expense_id}, lines 336-351: the submitter's expense is
\* loaded; 404 when it is gone, 400 unless it is Pending as loaded.
DeleteExpenseLoad(t) ==
    /\ tx[t].action = "delete"
    /\ tx[t].pc = "start"
    /\ tx' = [tx EXCEPT ![t] =
                 IF expense.id = NULL
                 THEN [@ EXCEPT !.pc = "done", !.ret = "HTTP 404"]
                 ELSE IF expense.status # PENDING
                 THEN [@ EXCEPT !.pc = "done", !.ret = "HTTP 400"]
                 ELSE [@ EXCEPT !.pc = "expense", !.expense = expense]]
    /\ UNCHANGED <<build, rules, manager_id, expense, approvals, built, resolved_by, ret>>

\* Lines 353-354, db.delete(expense) and db.commit(), whatever the status of
\* the expense is by now.  Expense.approvals is a relationship without a
\* delete cascade: the flush loads the rows of the expense and detaches them
\* by setting approvals.expense_id to NULL; the column is nullable=False, so
\* with a row the commit raises IntegrityError and get_db rolls the request
\* back.  Without rows DELETE FROM expenses is sent; when another request
\* has deleted the expense it matches no row, which the mapper answers with
\* a warning, and the request succeeds as well.
DeleteExpenseCommit(t) ==
    LET r == tx[t]
    IN  /\ r.action = "delete"
        /\ r.pc = "expense"
        /\ IF \E i \in 1..Len(approvals) : approvals[i].expense_id = r.expense.id
           THEN /\ tx' = [tx EXCEPT ![t] =
                             [@ EXCEPT !.pc = "done", !.ret = "IntegrityError"]]
                /\ UNCHANGED expense
           ELSE /\ tx' = [tx EXCEPT ![t] = [@ EXCEPT !.pc = "done", !.ret = "deleted"]]
                /\ expense' = [expense EXCEPT !.id = NULL]
        /\ UNCHANGED <<build, rules, manager_id, approvals, built, resolved_by, ret>>

\* DELETE /expenses/{expense_id} by the submitter, one round trip at a time.
DeleteExpense(t) ==
    \/ DeleteExpenseLoad(t)
    \/ DeleteExpenseCommit(t)

NextDelete ==
    \E t \in DOMAIN tx :
        \/ TxStep(t)
        \/ DeleteExpense(t)

SpecDelete == InitDelete /\ [][NextDelete]_vars

(***************************************************************************)
(* Properties.                                                             *)
(***************************************************************************)
\* The rules selected for the expense in the current state.
Applicable == ApplicableRules(rules, expense)

SomeRow(status) == \E i \in 1..Len(approvals) : approvals[i].status = status

\* C1: a reject by the designated approver on a Pending row succeeds and sets
\* the owning expense to Rejected in the same step, whatever the other rows'
\* statuses and the expense's status are: the step on which a reject request
\* that found its row returns, returns True and leaves the row and the
\* expense Rejected.
C1_RejectSetsRejected ==
    [][\A t \in DOMAIN tx :
          (/\ tx[t].action = "reject"
           /\ tx' = Remove(tx, t))
          => (/\ ret' = "True"
              /\ approvals'[tx[t].approval_id].status = REJECTED
              /\ expense'.status = REJECTED)]_vars

\* C2: once the expense is Approved or Rejected its status never changes
\* again, whatever is done to its still-Pending rows.
C2_TerminalStatusNeverChanges ==
    [][expense.status \in {APPROVED, REJECTED} => expense'.status = expense.status]_vars

\* C3: a request whose Approval id does not exist, whose user is not the row's
\* approver, or whose row is no longer Pending returns failure and changes no
\* Approval row and no expense: every step either is such a failure, or is
\* not a request of that kind.
C3_FailedCallChangesNothing ==
    [][\/ (ret' = "False" /\ tx' = tx /\ approvals' = approvals /\ expense' = expense)
       \/ \A id \in 1..(Len(approvals) + 1), u \in Users, a \in Actions :
             ~(/\ \/ id \notin 1..Len(approvals)
                  \/ approvals[id].approver_id # u
                  \/ approvals[id].status # PENDING
               /\ ProcessApproval(id, u, a))]_vars

\* A request has failed after a row was resolved.
C3_Witness ==
    /\ ret = "False"
    /\ \E i \in 1..Len(approvals) : approvals[i].status # PENDING

\* C4: when a Pending row of a Pending expense is approved, the expense is
\* Approved if completion evaluation over all its rows, the approved one
\* included, reports complete, and is still Pending otherwise.
C4_ApproveFollowsCompletion ==
    [][\A id \in 1..Len(approvals) :
          (/\ expense.status = PENDING
           /\ approvals[id].status = PENDING
           /\ approvals'[id].status = APPROVED)
          => expense'.status =
                 IF CheckApprovalCompletion(rules', expense',
                        AllApprovals(approvals', expense')) = "True"
                 THEN APPROVED ELSE PENDING]_vars

\* C5: when exactly one rule applies and it is a SpecificApprover rule,
\* completion evaluation is true iff the specific approver's Approval row
\* exists and is Approved, whatever the other rows' statuses are (the
\* approver holding at most one row of the expense).
C5_SpecificApproverDecides ==
    (/\ ret # "none"
     /\ Len(Applicable) = 1
     /\ Applicable[1].rule_type = SPECIFIC_APPROVER
     /\ Cardinality({i \in 1..Len(approvals) :
            approvals[i].approver_id = Applicable[1].specific_approver_id}) <= 1)
    => (ret = "True" <=>
            \E i \in 1..Len(approvals) :
                /\ approvals[i].approver_id = Applicable[1].specific_approver_id
                /\ approvals[i].status = APPROVED)

\* The specific approver's row is Approved among a Rejected and a Pending row
\* of another approver, and the evaluation reported complete.
C5_Witness ==
    /\ ret = "True"
    /\ Len(Applicable) = 1
    /\ Applicable[1].rule_type = SPECIFIC_APPROVER
    /\ \E i, j, k \in 1..Len(approvals) :
           /\ approvals[i].approver_id = Applicable[1].specific_approver_id
           /\ approvals[i].status = APPROVED
           /\ approvals[j].approver_id # Applicable[1].specific_approver_id
           /\ approvals[j].status = REJECTED
           /\ approvals[k].approver_id # Applicable[1].specific_approver_id
           /\ approvals[k].status = PENDING

\* C6: under a single Percentage rule with n listed approvers and threshold p,
\* with approves only, the expense is Approved from the first approve after
\* which approved_count * 100 >= p * n and Pending before; with p = 60 and
\* n = 5 that is the 3rd approval.
C6_PercentageThreshold ==
    (/\ built
     /\ Len(Applicable) = 1
     /\ Applicable[1].rule_type = PERCENTAGE
     /\ ~SomeRow(REJECTED))
    => LET n == Len(Applicable[1].rule_approvers)
           p == Applicable[1].percentage_required
           k == ApprovedCount(approvals)
       IN  /\ Len(approvals) = n
           /\ expense.status =
                  IF k >= 1 /\ k * 100 >= p * n THEN APPROVED ELSE PENDING
           /\ (p = 60 /\ n = 5) => (expense.status = APPROVED <=> k >= 3)

\* The only applicable rule is Hybrid(specific_approver = 1, 50%, approvers 1, 2, 3).
HybridOnly ==
    /\ Len(Applicable) = 1
    /\ Applicable[1].rule_type = HYBRID
    /\ Applicable[1].specific_approver_id = 1
    /\ Applicable[1].percentage_required = 50
    /\ Applicable[1].rule_approvers = <<1, 2, 3>>

\* C7: under that Hybrid rule alone, the built workflow lets each of X, Y, Z
\* approve, and the expense is Approved once X has approved or any two of
\* X, Y, Z have.
C7_HybridWorkflowCompletes ==
    (built /\ HybridOnly)
    => /\ \A u \in {1, 2, 3} : \E i \in 1..Len(approvals) : approvals[i].approver_id = u
       /\ (\/ \E i \in 1..Len(approvals) :
                 approvals[i].approver_id = 1 /\ approvals[i].status = APPROVED
           \/ ApprovedCount(approvals) >= 2)
          => expense.status = APPROVED

\* C8: completion evaluation on the freshly built workflow, no action taken,
\* reports not complete, whatever the rules and the manager are.
C8_FreshWorkflowNotComplete ==
    (built /\ \A i \in 1..Len(approvals) : approvals[i].status = PENDING)
    => CheckApprovalCompletion(rules, expense, AllApprovals(approvals, expense)) # "True"

\* The construction in progress has added its rows, having read manager as
\* the submitter's manager_id; it read none (NULL) when it had selected rules.
ConstructionRead(manager) ==
    \E t \in DOMAIN tx :
        tx[t].action = "workflow" /\ tx[t].pc = "rows" /\ tx[t].manager_id = manager

\* C9: when no active rule applies and the submitter has a manager, workflow
\* construction creates exactly one row: sequence 1, Pending, for that
\* manager, the manager being the one construction read.
C9_DefaultWorkflow ==
    [][\A manager \in Users :
          (/\ ~built /\ built'
           /\ Applicable = <<>>
           /\ ConstructionRead(manager))
          => approvals' = <<Approval(expense.id, manager, 1, PENDING)>>]_vars

\* The default workflow was built although the company has rules: none applies.
C9_Witness ==
    /\ built
    /\ rules # <<>>
    /\ Applicable = <<>>
    /\ manager_id # NULL
    /\ Len(approvals) = 1
    /\ approvals[1].approver_id = manager_id

\* C10: an Approval row's status changes only from Pending to Approved or
\* Rejected (hence at most once), only by a request of the row's approver;
\* rows are never deleted and nothing else of a row changes.
C10_ApprovalResolvedOnceByApprover ==
    [][/\ Len(approvals') >= Len(approvals)
       /\ \A i \in 1..Len(approvals) :
             /\ [approvals'[i] EXCEPT !.status = PENDING]
                    = [approvals[i] EXCEPT !.status = PENDING]
             /\ approvals'[i].status # approvals[i].status
                => /\ approvals[i].status = PENDING
                   /\ approvals'[i].status \in {APPROVED, REJECTED}
                   /\ resolved_by'[i] = approvals[i].approver_id]_vars

(***************************************************************************)
(* Concurrent requests against their serial executions.                    *)
(***************************************************************************)
\* Both requests have returned.
BothReturned == \A t \in Requests : tx[t].pc = "done"

\* The rows as the two requests found them: rows only ever change status.
PendingRows == [i \in 1..Len(approvals) |-> [approvals[i] EXCEPT !.status = PENDING]]

\* One whole process_approval call on the database state db.
Serial(db, r) ==
    LET e == [expense EXCEPT !.status = db.status]
        resolved == Resolve(db.rows, r.approval_id, r.action)
    IN  IF ProcessApprovalResult(rules, e, db.rows, r.approval_id,
                                 r.approver_id, r.action) = "True"
        THEN [rows |-> resolved,
              status |-> ExpenseStatusAfter(rules, e, resolved, r.action)]
        ELSE db

\* The database after request first and then request second, one after the other.
SerialOrder(first, second) ==
    Serial(Serial([rows |-> PendingRows, status |-> PENDING], tx[first]), tx[second])

\* C11: when two different approvers' approve actions on the same Pending
\* expense run concurrently, the final expense status is the status some
\* serial order of the two actions produces (two approvals that together
\* reach a Percentage threshold leave the expense Approved, not Pending).
C11_ConcurrentApprovesSerializable ==
    (/\ BothReturned
     /\ tx[1].action = "approve"
     /\ tx[2].action = "approve"
     /\ tx[1].approver_id # tx[2].approver_id)
    => expense.status \in {SerialOrder(1, 2).status, SerialOrder(2, 1).status}

\* C12: when a reject and an approve on two different Approval rows of the
\* same Pending expense run concurrently, the expense ends Rejected in every
\* interleaving.
C12_ConcurrentRejectWins ==
    (/\ BothReturned
     /\ tx[1].approval_id # tx[2].approval_id
     /\ {tx[1].action, tx[2].action} = {"approve", "reject"})
    => expense.status = REJECTED

\* C13: when two calls on the same Pending Approval row run concurrently,
\* exactly one returns success, the other returns failure, and the rows and
\* the expense are as the successful call alone leaves them.
C13_DoubleSubmitOneSucceeds ==
    (/\ BothReturned
     /\ tx[1].approval_id = tx[2].approval_id)
    => \E t \in Requests :
           LET alone == Serial([rows |-> PendingRows, status |-> PENDING], tx[t])
           IN  /\ tx[t].ret = "True"
               /\ \A u \in Requests \ {t} : tx[u].ret = "False"
               /\ approvals = alone.rows
               /\ expense.status = alone.status

\* C14: an action by the designated approver on a Pending Approval row
\* succeeds whether or not rows of the same expense with a lower sequence
\* number are still Pending: sequence numbers never gate an action.
C14_SequenceNeverGates ==
    \A approval_id \in 1..Len(approvals), action \in Actions :
        approvals[approval_id].status = PENDING
        => ProcessApprovalResult(rules, expense, approvals, approval_id,
                                 approvals[approval_id].approver_id, action) = "True"

(***************************************************************************)
(* Rule selection.                                                         *)
(***************************************************************************)
BothBoundsSet(rule) == rule.min_amount # NULL /\ rule.max_amount # NULL

\* An active rule of the expense's company with min <= amount <= max.
InWindow(rule) ==
    /\ rule.company_id = expense.company_id
    /\ rule.is_active
    /\ rule.min_amount <= expense.amount_in_company_currency
    /\ expense.amount_in_company_currency <= rule.max_amount

\* The rules with both bounds set that the window admits.
WindowRules == SelectSeq(rules, LAMBDA r : BothBoundsSet(r) /\ InWindow(r))

\* The rows construction makes when it selects exactly WindowRules and
\* reads the given manager.
WindowRows(manager) ==
    IF WindowRules = <<>> THEN DefaultApprovals(expense, manager)
    ELSE ApplyRules(WindowRules, expense, 1)

\* The completion result when evaluation selects exactly WindowRules.
WindowCompletion(rows) ==
    IF WindowRules = <<>>
    THEN (IF AllApproved(rows) THEN "True" ELSE "False")
    ELSE EvalRules(WindowRules, rows)

\* C15: for rules that have both bounds set, the rules selected for an
\* expense, at construction and at completion evaluation, are exactly the
\* active rules of the expense's company with min_amount <= amount <=
\* max_amount, both bounds inclusive; an inactive rule is never selected.
C15_SelectionByWindow ==
    [][/\ SelectSeq(Applicable, BothBoundsSet) = WindowRules
       /\ (\A i \in 1..Len(rules) : BothBoundsSet(rules[i]))
          => /\ \A manager \in Managers :
                    (~built /\ built' /\ ConstructionRead(manager))
                    => approvals' = WindowRows(manager)
             /\ \A t \in DOMAIN tx :
                    (/\ tx[t].pc = "rows"
                     /\ Len(tx') = Len(tx)
                     /\ tx'[t].pc = "checked")
                    => tx'[t].status =
                           IF WindowCompletion(tx[t].rows) = "True"
                           THEN APPROVED
                           ELSE tx[t].expense.status]_vars

\* Of two rules with both bounds set, the one whose max_amount equals the
\* amount was selected, built its row and completed on its approval; the
\* inactive one, its window around the amount, built none.
C15_Witness ==
    /\ built
    /\ Len(rules) = 2
    /\ \A i \in 1..2 : BothBoundsSet(rules[i])
    /\ rules[1].is_active
    /\ rules[1].company_id = expense.company_id
    /\ rules[1].min_amount < rules[1].max_amount
    /\ rules[1].max_amount = expense.amount_in_company_currency
    /\ ~rules[2].is_active
    /\ rules[2].min_amount <= expense.amount_in_company_currency
    /\ rules[2].max_amount >= expense.amount_in_company_currency
    /\ Len(approvals) = 1
    /\ approvals[1].approver_id = rules[1].specific_approver_id
    /\ approvals[1].status = APPROVED
    /\ expense.status = APPROVED

\* C16: an unset bound is unbounded on its side: an active rule of the
\* company with min_amount unset applies to every amount <= max_amount, one
\* with max_amount unset to every amount >= min_amount, one with both unset
\* to every amount; it is selected and construction builds its row.
C16_UnsetBoundUnbounded ==
    built =>
        \A i \in 1..Len(rules) :
            (/\ rules[i].is_active
             /\ rules[i].company_id = expense.company_id
             /\ rules[i].min_amount = NULL \/ rules[i].max_amount = NULL
             /\ rules[i].min_amount = NULL
                \/ rules[i].min_amount <= expense.amount_in_company_currency
             /\ rules[i].max_amount = NULL
                \/ expense.amount_in_company_currency <= rules[i].max_amount)
            => /\ rules[i] \in Range(Applicable)
               /\ \E j \in 1..Len(approvals) :
                      approvals[j].approver_id = rules[i].specific_approver_id

\* The rules, every Hybrid rule read as a Percentage rule with the same fields.
HybridAsPercentage ==
    [i \in 1..Len(rules) |->
        IF rules[i].rule_type = HYBRID
        THEN [rules[i] EXCEPT !.rule_type = PERCENTAGE]
        ELSE rules[i]]

\* C17: for every applicable Hybrid rule, construction creates one Pending
\* Approval row per approver listed in its rule_approvers, exactly as it does
\* for a Percentage rule with the same approver list.
C17_HybridBuiltLikePercentage ==
    [][\A manager \in Managers :
          (~built /\ built' /\ ConstructionRead(manager))
          => approvals' = WorkflowApprovals(HybridAsPercentage, expense, manager)]_vars

\* C18: when no rule applies and the submitter has no manager, construction
\* creates no Approval row and returns, and the expense is Pending in every
\* later state, whatever approval actions are attempted: the construction
\* step leaves the rows empty and the expense as it is, and every step from a
\* built workflow without rules and rows leaves it so.
C18_NoRuleNoManagerStaysPending ==
    [][/\ (/\ ~built /\ built'
           /\ Applicable = <<>>
           /\ ConstructionRead(NULL))
          => /\ approvals' = <<>>
             /\ expense' = expense
             /\ expense.status = PENDING
             /\ ret' = ret
       /\ (/\ built
           /\ Applicable = <<>>
           /\ approvals = <<>>)
          => /\ approvals' = <<>>
             /\ expense'.status = PENDING]_vars

\* Rules exist but none applies, there is no manager, the workflow was built
\* and an approval action has been attempted since.
C18_Witness ==
    /\ built
    /\ rules # <<>>
    /\ Applicable = <<>>
    /\ manager_id = NULL
    /\ ret = "False"
    /\ approvals = <<>>
    /\ expense.status = PENDING

(***************************************************************************)
(* Rule combination.                                                       *)
(***************************************************************************)
\* The rows completion evaluation is given.
EvaluatedRows == AllApprovals(approvals, expense)

\* The rule is satisfied on the rows when read as a rule of the given type.
SatisfiedAs(rule, type) ==
    RuleOutcome([rule EXCEPT !.rule_type = type], EvaluatedRows) = "True"

\* C19: the completion result of a Hybrid rule is the SpecificApprover
\* condition on its specific_approver_id OR the Percentage condition on its
\* rule_approvers and percentage_required, each with the value it has for a
\* standalone rule with the same fields, for every percentage_required in
\* [0,100], 0 included.
C19_HybridIsOrOfStandalone ==
    ret # "none" =>
        \A i \in 1..Len(rules) :
            rules[i].rule_type = HYBRID
            => /\ SatisfiedAs(rules[i], HYBRID)
                  <=> (SatisfiedAs(rules[i], SPECIFIC_APPROVER)
                       \/ SatisfiedAs(rules[i], PERCENTAGE))
               /\ Len(rules) = 1
                  => (ret = "True"
                      <=> (SatisfiedAs(rules[i], SPECIFIC_APPROVER)
                           \/ SatisfiedAs(rules[i], PERCENTAGE)))

\* The applicable rules in the order perm.
Reordered(perm) == [i \in 1..Len(Applicable) |-> Applicable[perm[i]]]

\* C20: when one or more rules apply, completion evaluation returns true if
\* and only if at least one applicable rule is individually satisfied, and
\* the result is the same for every ordering of the applicable rules, a rule
\* with percentage_required unset included.
C20_CompletionIsPureOr ==
    (ret # "none" /\ Applicable # <<>>)
    => /\ ret = "True"
          <=> \E i \in 1..Len(Applicable) :
                  RuleOutcome(Applicable[i], EvaluatedRows) = "True"
       /\ \A perm \in Permutations(1..Len(Applicable)) :
              EvalRules(Reordered(perm), EvaluatedRows) = ret

\* No evaluated row has an approver listed in the rule's rule_approvers.
NoListedRow(rule) ==
    \A i \in 1..Len(EvaluatedRows) :
        EvaluatedRows[i].approver_id \notin Range(rule.rule_approvers)

\* C21: a Percentage rule, or the percentage part of a Hybrid rule, for which
\* no Approval row of the expense has a listed approver is not satisfied, and
\* raises nothing, for every percentage_required, 0 included: the Percentage
\* rule is false, the Hybrid rule is what its specific approver decides.
C21_NoListedRowNotSatisfied ==
    ret # "none" =>
        \A i \in 1..Len(rules) :
            NoListedRow(rules[i])
            => /\ rules[i].rule_type = PERCENTAGE
                  => /\ RuleOutcome(rules[i], EvaluatedRows) = "False"
                     /\ Len(rules) = 1 => ret = "False"
               /\ rules[i].rule_type = HYBRID
                  => LET specific ==
                             IF SatisfiedAs(rules[i], SPECIFIC_APPROVER)
                             THEN "True" ELSE "False"
                     IN  /\ RuleOutcome(rules[i], EvaluatedRows) = specific
                         /\ Len(rules) = 1 => ret = specific

\* A Percentage rule requiring 0 percent was evaluated on rows none of which
\* belongs to a listed approver, and was found not satisfied.
C21_Witness ==
    /\ ret = "False"
    /\ Len(rules) = 1
    /\ rules[1].rule_type = PERCENTAGE
    /\ rules[1].percentage_required = 0
    /\ EvaluatedRows # <<>>
    /\ NoListedRow(rules[1])
    /\ \E i \in 1..Len(EvaluatedRows) : EvaluatedRows[i].status = APPROVED

\* C22: when no active rule applies to the expense at evaluation time,
\* completion evaluation returns true if and only if every Approval row of
\* the expense is Approved; one Pending or Rejected row makes it false.
C22_DefaultCompletionIsAllApproved ==
    (ret # "none" /\ Applicable = <<>>)
    => (ret = "True"
        <=> \A i \in 1..Len(EvaluatedRows) : EvaluatedRows[i].status = APPROVED)

\* The only rule is inactive; its approver's row is Approved, another row is
\* Pending, and evaluation found the expense not complete.
C22_Witness ==
    /\ ret = "False"
    /\ rules # <<>>
    /\ Applicable = <<>>
    /\ \E i, j \in 1..Len(EvaluatedRows) :
           /\ EvaluatedRows[i].status = APPROVED
           /\ EvaluatedRows[i].approver_id = rules[1].specific_approver_id
           /\ EvaluatedRows[j].status = PENDING

(***************************************************************************)
(* Sequence numbers.                                                       *)
(***************************************************************************)
\* The rows of the rules rs when the k-th of them numbers its rows k.
RECURSIVE RowsByPosition(_, _)
RowsByPosition(rs, k) ==
    IF rs = <<>> THEN <<>>
    ELSE RuleApprovals(Head(rs), expense, k) \o RowsByPosition(Tail(rs), k + 1)

\* C23: construction gives every row created for the k-th applicable rule,
\* rules of all three types counted, the sequence number k: one row for a
\* SpecificApprover rule, one row per listed approver for a Percentage rule,
\* all rows Pending.
C23_SequenceIsRulePosition ==
    (built /\ Applicable # <<>>)
    => /\ PendingRows = RowsByPosition(Applicable, 1)
       /\ ret = "none" => \A i \in 1..Len(approvals) : approvals[i].status = PENDING

(***************************************************************************)
(* Rules changed after construction.                                       *)
(***************************************************************************)
\* A rule request has committed and left its rule other than it found it:
\* the rules have changed since the workflow was built.
RuleChanged ==
    \E a \in DOMAIN tx :
        /\ tx[a].action \in {"update_approval_rule", "deactivate_approval_rule"}
        /\ tx[a].ret \in {"updated", "deactivated"}
        /\ rules[tx[a].rule_id] # tx[a].rules[1]

\* C24: completion is evaluated against the rules as they are at evaluation
\* time: once a rule has been updated, deactivated or activated after
\* construction, an approve that is processed under the changed rules sets
\* the expense Approved exactly when the rules that are active and applicable
\* now are satisfied by the current rows of the expense, whatever rules built
\* the rows.
C24_CompletionByCurrentRules ==
    [][\A t \in DOMAIN tx :
           (/\ RuleChanged
            /\ tx[t].action = "approve"
            /\ tx[t].pc = "checked"
            /\ tx[t].rules = WindowRules
            /\ tx'[t].ret = "True")
           => expense'.status =
                  IF WindowCompletion(AllApprovals(approvals', expense)) = "True"
                  THEN APPROVED
                  ELSE expense.status]_vars

\* C25: an expense whose status is Pending has at least one Pending Approval
\* row, except when no rule applied at construction and the submitter had no
\* manager: an expense for which a rule applied is never stuck Pending with
\* nobody left who can act on it.  The rules and the amount being those of
\* construction, the exception is the built workflow without rule and row.
C25_PendingExpenseHasPendingRow ==
    (/\ built
     /\ expense.status = PENDING
     /\ ~(Applicable = <<>> /\ approvals = <<>>))
    => SomeRow(PENDING)

\* C26: an expense's status is Rejected if and only if at least one of its
\* Approval rows has status Rejected.
C26_RejectedIffRowRejected ==
    built => (expense.status = REJECTED <=> SomeRow(REJECTED))

\* C27: once an expense's status has left Pending, no approval action sets it
\* back to Pending.
C27_NeverBackToPending ==
    [][expense.status # PENDING => expense'.status # PENDING]_vars

\* The expense left Pending by a reject and a later approve changed its status
\* again: it is Approved and one of its rows is Rejected.
C27_Witness ==
    /\ ret = "True"
    /\ expense.status = APPROVED
    /\ SomeRow(REJECTED)
    /\ SomeRow(APPROVED)

(***************************************************************************)
(* Amount updates.                                                         *)
(***************************************************************************)
\* C28: updating the amount of a Pending expense creates, deletes and alters
\* no Approval row, and every later completion evaluation selects rules by
\* the updated amount: after an update into another rule's window the rows
\* are those of the old rule and completion is decided by the new rule.
C28_UpdateKeepsRowsNewAmountDecides ==
    [][/\ expense'.amount_in_company_currency # expense.amount_in_company_currency
          => /\ approvals' = approvals
             /\ expense'.status = expense.status
       /\ (\E i \in 1..Len(approvals) :
              /\ approvals[i].status = PENDING
              /\ approvals'[i].status = APPROVED)
          => expense'.status =
                 IF WindowCompletion(AllApprovals(approvals', expense)) = "True"
                 THEN APPROVED
                 ELSE expense.status]_vars

(***************************************************************************)
(* Deleting an expense.                                                    *)
(***************************************************************************)
\* C29: deleting a Pending expense removes it and leaves its Approval rows in
\* place, and any later action by the designated approver on such an
\* orphaned Pending row returns failure and leaves the row Pending.
C29_DeleteOrphansRows ==
    [][/\ \A t \in DOMAIN tx :
              (/\ tx[t].action = "delete"
               /\ tx[t].pc = "expense"
               /\ tx'[t].pc = "done"
               /\ expense.id # NULL
               /\ expense.status = PENDING)
              => /\ tx'[t].ret = "deleted"
                 /\ expense'.id = NULL
                 /\ approvals' = approvals
       /\ expense'.id = NULL
          => \A approval_id \in 1..Len(approvals'), action \in Actions :
                 approvals'[approval_id].status = PENDING
                 => ProcessApprovalResult(rules, expense', approvals', approval_id,
                        approvals'[approval_id].approver_id, action) = "False"]_vars

(***************************************************************************)
(* One approver, two rows.                                                 *)
(***************************************************************************)
\* The rows of the expense that belong to approver.
RowsOf(approver) ==
    {i \in 1..Len(approvals) : approvals[i].approver_id = approver}

\* C30: when two applicable rules name the same approver, so that the
\* approver has two Approval rows on the expense, a SpecificApprover rule
\* naming that approver is satisfied as soon as either row is Approved,
\* whichever of the two was approved.
C30_EitherRowSatisfiesSpecific ==
    built =>
        \A k \in 1..Len(Applicable) :
            (/\ Applicable[k].rule_type = SPECIFIC_APPROVER
             /\ Cardinality(RowsOf(Applicable[k].specific_approver_id)) = 2
             /\ \E i \in RowsOf(Applicable[k].specific_approver_id) :
                    approvals[i].status = APPROVED)
            => RuleOutcome(Applicable[k], AllApprovals(approvals, expense)) = "True"

====
